---- MODULE Spec2Model ----
(***************************************************************************)
(* A model of src/automation/cli.py: the formatting functions, the usage   *)
(* computations, the four commands and the dispatcher.                     *)
(*                                                                         *)
(* Numbers.  Python's byte counts and floats are modelled exactly on the   *)
(* values the model draws:                                                 *)
(*   - a byte count is a record [m, e] standing for m * 1024^e, so that    *)
(*     `n /= 1024` is e - 1 and is exact, as it is on a double;            *)
(*   - a percentage is a fraction [num, den] with den > 0;                 *)
(*   - an uptime is a number of quarter seconds.                           *)
(* Text.  Printed lines are strings, built with \o, ToString and Len.      *)
(***************************************************************************)
EXTENDS Integers, Sequences, FiniteSets, TLC

VARIABLES
    argv,       \* the command line: [command, disk_warn, mem_warn, extra]
    pc,         \* the line of cli.py about to run ("L151", ...), or "exited"
    args,       \* the argparse.Namespace parse_args returned
    called,     \* the handlers main has invoked, in order
    stdout,     \* the lines printed so far
    exit_code,  \* the process exit status, NoExit while running
    outcome,    \* how the process ended: "ok", "usage_error", "help", "probe_error"
    exc,        \* the probe whose failure is propagating, "" if none
    os,         \* what the probes returned: hostname, user, uptime, usage, meminfo, now
    loc,        \* cmd_inspect's locals: disk_pct, disk_bad, mem_pct, mem_bad
    fn_arg,     \* the argument of the function under test (function specifications)
    fn_ret      \* its result

vars == <<argv, pc, args, called, stdout, exit_code, outcome, exc, os, loc, fn_arg, fn_ret>>

cliVars == <<argv, args, called, stdout, exit_code, outcome, exc, os, loc>>

(***************************************************************************)
(* Bounds of the model.                                                    *)
(***************************************************************************)
MaxMant == 2100      \* byte counts m * 1024^e with m in 0..MaxMant
MaxExp == 5          \* ... and e in 0..MaxExp
MaxDays == 2         \* uptimes of up to MaxDays whole days plus a remainder
MaxRem == 3700       \* remainders 0..MaxRem seconds into a day
MaxTail == 2         \* and the last MaxTail seconds of a day
MaxLabelPad == 3     \* labels of up to LABEL_WIDTH + MaxLabelPad characters
MaxBlocks == 5       \* a filesystem of up to MaxBlocks blocks
MaxKB == 2           \* /proc/meminfo values of up to MaxKB kB

None == "None"
NoExit == 0 - 1

(***************************************************************************)
(* Formatting                                                              *)
(***************************************************************************)
LABEL_WIDTH_narrow == 10 - 2

LABEL_WIDTH == 10

RECURSIVE Spaces(_)
Spaces(k) == IF k <= 0 THEN "" ELSE " " \o Spaces(k - 1)

\* f"{label:<{LABEL_WIDTH}}": pads on the right to the width, never truncates.
LeftAlign(label, width) == label \o Spaces(width - Len(label))

fmt_field(label, value) ==
    "  " \o LeftAlign(label, LABEL_WIDTH) \o " " \o value

\* round(a / d) to the nearest integer, ties to the even one (d > 0),
\* which is how Python's fixed-point formats round an exact value.
RoundHalfEven(a, d) ==
    LET q == a \div d
        r == a % d
    IN  IF 2 * r > d THEN q + 1
        ELSE IF 2 * r < d THEN q
        ELSE IF q % 2 = 0 THEN q ELSE q + 1

\* n < 1024 for n = m * 1024^e
LessThan1024_inclusive(n) ==
    \/ n.m <= 0
    \/ n.e <= 0 /\ (n.e <= -3 \/ n.m <= 1024 ^ (1 - n.e))

LessThan1024(n) ==
    \/ n.m <= 0
    \/ n.e <= 0 /\ (n.e <= -3 \/ n.m < 1024 ^ (1 - n.e))

\* n /= 1024
DivideBy1024(n) == [n EXCEPT !.e = @ - 1]

\* f"{n:.1f}"
Fmt1f(n) ==
    IF n.e >= 0
    THEN ToString(IF n.m = 0 THEN 0 ELSE n.m * 1024 ^ n.e) \o ".0"
    ELSE LET T == RoundHalfEven(10 * n.m, 1024 ^ (-n.e))
         IN  ToString(T \div 10) \o "." \o ToString(T % 10)

Units == <<"B", "KiB", "MiB", "GiB", "TiB">>

RECURSIVE format_bytes_loop(_, _)
format_bytes_loop(n, i) ==
    IF i > Len(Units) THEN Fmt1f(n) \o " PiB"
    ELSE IF LessThan1024(n) THEN Fmt1f(n) \o " " \o Units[i]
    ELSE format_bytes_loop(DivideBy1024(n), i + 1)

format_bytes(n) == format_bytes_loop(n, 1)

(***************************************************************************)
(* Data helpers                                                            *)
(***************************************************************************)
\* f"{x:02d}"
Fmt02d(x) == IF x < 10 THEN "0" \o ToString(x) ELSE ToString(x)

\* The locals of _format_uptime for `q` quarter seconds.
\* seconds // 86400 and seconds % 86400 on floats, then int().
uptime_parts_no_day_split(q) ==
    LET rem0 == q \div 4
        h == rem0 \div 3600
        rem1 == rem0 % 3600
    IN  [days |-> 0, h |-> h, m |-> rem1 \div 60, s |-> rem1 % 60]

uptime_parts(q) ==
    LET days == q \div (4 * 86400)
        rem0 == (q % (4 * 86400)) \div 4
        h == rem0 \div 3600
        rem1 == rem0 % 3600
    IN  [days |-> days, h |-> h, m |-> rem1 \div 60, s |-> rem1 % 60]

_format_uptime(q) ==
    LET p == uptime_parts(q)
        hms == Fmt02d(p.h) \o ":" \o Fmt02d(p.m) \o ":" \o Fmt02d(p.s)
    IN  IF p.days # 0 THEN ToString(p.days) \o " day(s), " \o hms ELSE hms

Min(a, b) == IF a <= b THEN a ELSE b

Zero == [m |-> 0, e |-> 0]

\* a - b on byte counts
Minus(a, b) ==
    LET e0 == Min(a.e, b.e)
    IN  [m |-> a.m * 1024 ^ (a.e - e0) - b.m * 1024 ^ (b.e - e0), e |-> e0]

\* 100 * used / total if total else 0.0
Percent(used, total) ==
    IF total.m # 0
    THEN LET e0 == Min(used.e, total.e)
         IN  [num |-> 100 * used.m * 1024 ^ (used.e - e0),
              den |-> total.m * 1024 ^ (total.e - e0)]
    ELSE [num |-> 0, den |-> 1]

\* f"{pct:.0f}": a negative value that rounds to zero prints as "-0"
Fmt0f(pct) ==
    LET r == RoundHalfEven(pct.num, pct.den)
    IN  IF pct.num < 0 /\ r = 0 THEN "-0" ELSE ToString(r)

UsageText(used, total, pct) ==
    format_bytes(used) \o " used / " \o format_bytes(total)
        \o " total (" \o Fmt0f(pct) \o "%)"

\* usage: what shutil.disk_usage("/") returned, [total, used]
_get_disk_usage(usage) ==
    LET pct == Percent(usage.used, usage.total)
    IN  [pct |-> pct, s |-> UsageText(usage.used, usage.total, pct)]

\* dict.get(k, default)
Get(d, k, default) == IF k \in DOMAIN d THEN d[k] ELSE default

\* meminfo: /proc/meminfo as a function from its keys to their kB values
_get_memory_usage(meminfo) ==
    LET lines == [k \in DOMAIN meminfo |-> [m |-> meminfo[k], e |-> 1]]
        total == Get(lines, "MemTotal", Zero)
        available == Get(lines, "MemAvailable", Get(lines, "MemFree", Zero))
        used == Minus(total, available)
        pct == Percent(used, total)
    IN  [pct |-> pct, s |-> UsageText(used, total, pct)]

(***************************************************************************)
(* The functions on their own: Init draws one call, the action applies the *)
(* function to it.  pc is "call" before and "return" after.                *)
(***************************************************************************)
RECURSIVE Repeat(_, _)
Repeat(c, k) == IF k <= 0 THEN "" ELSE c \o Repeat(c, k - 1)

\* the labels the commands pass to fmt_field (lines 87-89, 96-106)
CommandLabels ==
    {"hostname", "user", "uptime", "disk", "disk status", "memory", "memory status"}

Labels == CommandLabels \cup {Repeat("x", k) : k \in 0..(LABEL_WIDTH + MaxLabelPad)}

Values == {"", "OK", "WARNING", "box", "00:00:00", "1 day(s), 01:00:00"}

FieldCalls == [fn : {"fmt_field"}, label : Labels, value : Values]

BigMants == {1024 * 1024 - 1, 1024 * 1024, 1024 * 1024 + 1, 1536 * 1024}

BytesCalls ==
    [fn : {"format_bytes"}, m : 0..MaxMant, e : 0..MaxExp]
        \cup [fn : {"format_bytes"}, m : BigMants, e : 0..1]

Remainders == (0..MaxRem) \cup ((86400 - MaxTail)..86399)

UptimeCalls ==
    {[fn |-> "_format_uptime", q |-> 4 * (86400 * d + r) + f] :
        d \in 0..MaxDays, r \in Remainders, f \in {0, 1, 3}}

\* shutil.disk_usage("/"): total = f_blocks * f_frsize and
\* used = (f_blocks - f_bfree) * f_frsize, so 0 <= used <= total.
DiskUsages ==
    {[used |-> [m |-> t - free, e |-> 3], total |-> [m |-> t, e |-> 3]] :
        t \in 0..MaxBlocks, free \in 0..MaxBlocks} \cap
    [used : [m : 0..MaxBlocks, e : {3}], total : [m : 0..MaxBlocks, e : {3}]]

MemKeys == {"MemTotal", "MemAvailable", "MemFree"}

\* /proc/meminfo: each of the three keys present or absent, with a kB value
MemInfos == UNION {[K -> 0..MaxKB] : K \in SUBSET MemKeys}

FnIdle ==
    /\ argv = None /\ args = None /\ called = <<>> /\ stdout = <<>>
    /\ exit_code = NoExit /\ outcome = "" /\ exc = "" /\ os = None /\ loc = None

FnInit ==
    /\ FnIdle
    /\ pc = "call"
    /\ fn_ret = None
    /\ \/ fn_arg \in FieldCalls
       \/ fn_arg \in BytesCalls
       \/ fn_arg \in UptimeCalls
       \/ fn_arg \in [fn : {"_get_disk_usage"}, usage : DiskUsages]
       \/ fn_arg \in [fn : {"_get_memory_usage"}, meminfo : MemInfos]

Return(value) ==
    /\ pc = "call"
    /\ pc' = "return"
    /\ fn_ret' = value
    /\ UNCHANGED <<fn_arg, cliVars>>

CallFmtField ==
    /\ fn_arg.fn = "fmt_field"
    /\ Return(fmt_field(fn_arg.label, fn_arg.value))

CallFormatBytes ==
    /\ fn_arg.fn = "format_bytes"
    /\ Return(format_bytes([m |-> fn_arg.m, e |-> fn_arg.e]))

CallFormatUptime ==
    /\ fn_arg.fn = "_format_uptime"
    /\ Return(_format_uptime(fn_arg.q))

CallGetDiskUsage ==
    /\ fn_arg.fn = "_get_disk_usage"
    /\ Return(_get_disk_usage(fn_arg.usage))

CallGetMemoryUsage ==
    /\ fn_arg.fn = "_get_memory_usage"
    /\ Return(_get_memory_usage(fn_arg.meminfo))

FnNext ==
    \/ CallFmtField
    \/ CallFormatBytes
    \/ CallFormatUptime
    \/ CallGetDiskUsage
    \/ CallGetMemoryUsage

FnSpec == FnInit /\ [][FnNext]_vars

Returned(f) == pc = "return" /\ fn_arg.fn = f

(***************************************************************************)
(* Properties of the functions, checked under FnSpec.                      *)
(***************************************************************************)

\* C7: for every label and value, fmt_field(label, value) is two spaces, the
\* label padded or truncated to exactly 10 characters, one space and the
\* value, so that the value always begins at column 13 -- also for the
\* labels "disk status" and "memory status" of inspect.
C7_ValueAtColumn13 ==
    Returned("fmt_field") =>
        Len(fn_ret) = 2 + 10 + 1 + Len(fn_arg.value)

\* n < 1024^j for n = m * 1024^e with 0 <= m < 1024^3, compared directly
BelowPow(m, e, j) == m = 0 \/ (e < j /\ m < 1024 ^ Min(j - e, 3))

\* how many times 1024 divides n before the unit is chosen: the first of
\* 0..4 at which the quotient is below 1024, and 5 (PiB) when there is none
UnitIndex(m, e) ==
    IF \E j \in 0..4 : BelowPow(m, e, j + 1)
    THEN CHOOSE j \in 0..4 :
            BelowPow(m, e, j + 1) /\ \A i \in 0..(j - 1) : ~BelowPow(m, e, i + 1)
    ELSE 5

UnitNames == <<"B", "KiB", "MiB", "GiB", "TiB", "PiB">>

\* text is `tenths`/10 with one decimal place, followed by the unit
OneDecimal(tenths, unit) ==
    ToString(tenths \div 10) \o "." \o ToString(tenths % 10) \o " " \o unit

Abs(x) == IF x < 0 THEN 0 - x ELSE x

\* C8: for every non-negative byte count n, format_bytes(n) uses the first
\* of B, KiB, MiB, GiB, TiB at which n / 1024^k is below 1024, and PiB with
\* the value n / 1024^5 (which may be 1024 or more) from 1024^5 on; the value
\* is n / 1024^k to one decimal place; 0 gives "0.0 B", 1024 "1.0 KiB",
\* 1536 "1.5 KiB" and 1024^4 "1.0 TiB".
C8_FormatBytes ==
    Returned("format_bytes") =>
        LET m == fn_arg.m
            e == fn_arg.e
            k == UnitIndex(m, e)
            unit == UnitNames[k + 1]
        IN  /\ IF e >= k \/ m = 0
               THEN fn_ret = OneDecimal(10 * (IF m = 0 THEN 0 ELSE m * 1024 ^ (e - k)), unit)
               ELSE LET D == 1024 ^ (k - e)
                        lo == (10 * m) \div D
                    IN  \E T \in {lo, lo + 1} :
                           /\ 2 * Abs(10 * m - T * D) <= D
                           /\ fn_ret = OneDecimal(T, unit)
            /\ (m = 0) => fn_ret = "0.0 B"
            /\ (m = 1024 /\ e = 0) => fn_ret = "1.0 KiB"
            /\ (m = 1 /\ e = 1) => fn_ret = "1.0 KiB"
            /\ (m = 1536 /\ e = 0) => fn_ret = "1.5 KiB"
            /\ (m = 1 /\ e = 4) => fn_ret = "1.0 TiB"
            /\ (m = 1023 /\ e = 0) => fn_ret = "1023.0 B"
            /\ (m = 1 /\ e = 5) => fn_ret = "1.0 PiB"
            /\ (m = 2048 /\ e = 5) => fn_ret = "2048.0 PiB"

\* a PiB result whose value is 1024 or more
C8_Witness ==
    /\ Returned("format_bytes")
    /\ fn_arg.m = 1024 /\ fn_arg.e = 5
    /\ fn_ret = "1024.0 PiB"

\* "HH" of a number below 100, digit by digit
TwoDigits(x) == ToString(x \div 10) \o ToString(x % 10)

\* C9: for every non-negative number of seconds, _format_uptime decomposes
\* it into days, hours (0..23), minutes (0..59) and seconds (0..59) that add
\* up to the floor of the input; the text is "<days> day(s), HH:MM:SS" exactly
\* when days > 0 and "HH:MM:SS" otherwise, two digits each; 0 gives
\* "00:00:00", 3661 "01:01:01" and 90000 "1 day(s), 01:00:00".
C9_FormatUptime ==
    Returned("_format_uptime") =>
        LET p == uptime_parts(fn_arg.q)
            hms == TwoDigits(p.h) \o ":" \o TwoDigits(p.m) \o ":" \o TwoDigits(p.s)
        IN  /\ p.days >= 0
            /\ p.h \in 0..23 /\ p.m \in 0..59 /\ p.s \in 0..59
            /\ 4 * (p.days * 86400 + p.h * 3600 + p.m * 60 + p.s) <= fn_arg.q
            /\ fn_arg.q < 4 * (p.days * 86400 + p.h * 3600 + p.m * 60 + p.s + 1)
            /\ fn_ret = (IF p.days > 0 THEN ToString(p.days) \o " day(s), " ELSE "") \o hms
            /\ (fn_arg.q = 0) => fn_ret = "00:00:00"
            /\ (fn_arg.q = 4 * 3661) => fn_ret = "01:01:01"
            /\ (fn_arg.q = 4 * 90000) => fn_ret = "1 day(s), 01:00:00"
            /\ (fn_arg.q = 4 * 86399 + 3) => fn_ret = "23:59:59"

\* an uptime of more than a day with a fraction of a second
C9_Witness ==
    /\ Returned("_format_uptime")
    /\ fn_arg.q = 4 * 90061 + 1
    /\ fn_ret = "1 day(s), 01:01:01"

\* the total the usage computation read
TotalRead ==
    IF fn_arg.fn = "_get_disk_usage" THEN fn_arg.usage.total.m
    ELSE Get(fn_arg.meminfo, "MemTotal", 0)

\* C3: for both _get_disk_usage and _get_memory_usage and every reading,
\* total > 0 gives 0 <= percentUsed <= 100 and total = 0 gives
\* percentUsed = 0.0; for memory, for every combination of MemTotal,
\* MemAvailable and MemFree (present or absent).
C3_PercentInRange ==
    (Returned("_get_disk_usage") \/ Returned("_get_memory_usage")) =>
        /\ TotalRead > 0 =>
              /\ 0 <= fn_ret.pct.num
              /\ fn_ret.pct.num <= 100 * fn_ret.pct.den
        /\ TotalRead = 0 => fn_ret.pct.num = 0

(***************************************************************************)
(* CLI setup and main: one process run.  Init draws the command line; the  *)
(* probes draw what the operating system answers when they are called.     *)
(***************************************************************************)
COMMANDS ==
    << [name |-> "hello", help |-> "Print hello cursor", fn |-> "cmd_hello"],
       [name |-> "time", help |-> "Print current time", fn |-> "cmd_time"],
       [name |-> "sysinfo", help |-> "Print hostname, user, uptime", fn |-> "cmd_sysinfo"],
       [name |-> "inspect", help |-> "Print hostname, user, uptime, disk, memory",
        fn |-> "cmd_inspect"] >>

Registered == {COMMANDS[i].name : i \in 1..Len(COMMANDS)}

\* the option values of the command lines drawn, as sequences of characters
Tokens == { <<"5", "0">>, <<"1", "0", "1">>, <<"-", "1">>, <<"8", "x">> }

\* a command line: the subcommand ("" when missing), at most one --disk-warn
\* and one --mem-warn with a value each, and a last argument
Argvs ==
    [command : Registered \cup {"bogus", ""},
     disk_warn : {<<>>} \cup {<<t>> : t \in Tokens},
     mem_warn : {<<>>} \cup {<<t>> : t \in Tokens},
     extra : {"", "--bogus", "-h"}]

Digits == <<"0", "1", "2", "3", "4", "5", "6", "7", "8", "9">>

IsDigit(c) == \E d \in 1..10 : Digits[d] = c

DigitValue(c) == (CHOOSE d \in 1..10 : Digits[d] = c) - 1

RECURSIVE DigitsValue(_)
DigitsValue(t) ==
    IF t = <<>> THEN 0
    ELSE 10 * DigitsValue(SubSeq(t, 1, Len(t) - 1)) + DigitValue(t[Len(t)])

\* int(token) for type=int: an optional sign and one or more digits, else ValueError
ParseInt(t) ==
    LET signed == t # <<>> /\ t[1] \in {"-", "+"}
        body == IF signed THEN Tail(t) ELSE t
        valid == body # <<>> /\ \A i \in 1..Len(body) : IsDigit(body[i])
    IN  IF ~valid THEN [ok |-> FALSE, value |-> 0]
        ELSE [ok |-> TRUE,
              value |-> IF t[1] = "-" THEN 0 - DigitsValue(body) ELSE DigitsValue(body)]

\* an option of the inspect sub-parser: its value, or its default when not given
Option(given, default) ==
    IF given = <<>> THEN [ok |-> TRUE, value |-> default] ELSE ParseInt(given[1])

UsageError == [status |-> "usage_error", code |-> 2]

HelpExit == [status |-> "help", code |-> 0]

\* parser.parse_args() on the command line a: a Namespace, or the exit
\* argparse takes (error(): status 2; -h: the help text and status 0)
parse_args(a) ==
    LET options == a.disk_warn # <<>> \/ a.mem_warn # <<>>
        disk == Option(a.disk_warn, 80)
        mem == Option(a.mem_warn, 85)
    IN  IF a.command = ""
        THEN IF a.extra = "-h" /\ ~options THEN HelpExit ELSE UsageError
        ELSE IF a.command \notin Registered THEN UsageError
        ELSE IF a.command # "inspect"
        THEN IF a.extra = "-h" THEN HelpExit
             ELSE IF options \/ a.extra # "" THEN UsageError
             ELSE [status |-> "ok", ns |-> [command |-> a.command]]
        ELSE IF ~disk.ok \/ ~mem.ok THEN UsageError
        ELSE IF a.extra = "-h" THEN HelpExit
        ELSE IF a.extra # "" THEN UsageError
        ELSE [status |-> "ok",
              ns |-> [command |-> a.command,
                      disk_warn |-> disk.value, mem_warn |-> mem.value]]

\* handlers = {name: fn for name, _, fn in COMMANDS}
handlers_first == [n \in Registered |-> COMMANDS[1].fn]

handlers ==
    [n \in Registered |-> COMMANDS[CHOOSE i \in 1..Len(COMMANDS) : COMMANDS[i].name = n].fn]

\* the line at which each handler starts
Entry(fn) ==
    CASE fn = "cmd_hello" -> "L78"
      [] fn = "cmd_time" -> "L82"
      [] fn = "cmd_sysinfo" -> "L86"
      [] fn = "cmd_inspect" -> "L93"

\* what the operating system can answer
Hostnames == {"box"}
Users == {"root"}
Uptimes == {0, 4 * 90061 + 1}
Nows == {"2026-01-01 00:00:00.000001", "2026-01-01 00:00:01"}

NoReading == [hostname |-> "", user |-> "", uptime |-> 0, now |-> "",
              usage |-> [used |-> Zero, total |-> Zero], meminfo |-> <<>>]

NoLocals == [uptime_str |-> "", disk_warn |-> 0, mem_warn |-> 0,
             disk_pct |-> [num |-> 0, den |-> 1], disk_str |-> "", disk_bad |-> FALSE,
             mem_pct |-> [num |-> 0, den |-> 1], mem_str |-> "", mem_bad |-> FALSE]

Init ==
    /\ argv \in Argvs
    /\ pc = "L151"
    /\ args = [command |-> ""]
    /\ called = <<>>
    /\ stdout = <<>>
    /\ exit_code = NoExit
    /\ outcome = ""
    /\ exc = ""
    /\ os = NoReading
    /\ loc = NoLocals
    /\ fn_arg = None
    /\ fn_ret = None

\* the process ends with `code`
Exit(code, how) ==
    /\ exit_code' = code
    /\ outcome' = how
    /\ pc' = "exited"

\* a probe raises (OSError, KeyError, ...): nothing catches it, the
\* interpreter prints the traceback to stderr and exits with status 1
Raise(probe) ==
    /\ exc' = probe
    /\ Exit(1, "probe_error")
    /\ UNCHANGED <<argv, args, called, stdout, os, loc, fn_arg, fn_ret>>

print(line) == stdout' = Append(stdout, line)

\* line 151: args = parse_args(); -h prints the help text to stdout
Main151 ==
    /\ pc = "L151"
    /\ LET r == parse_args(argv)
       IN  IF r.status = "ok"
           THEN /\ args' = r.ns
                /\ pc' = "L153"
                /\ UNCHANGED <<stdout, exit_code, outcome>>
           ELSE /\ Exit(r.code, r.status)
                /\ stdout' = IF r.status = "help" THEN <<"usage: cli">> ELSE stdout
                /\ UNCHANGED args
    /\ UNCHANGED <<argv, called, exc, os, loc, fn_arg, fn_ret>>

\* lines 152-153: handlers[args.command](args)
Main153 ==
    /\ pc = "L153"
    /\ called' = Append(called, handlers[args.command])
    /\ pc' = Entry(handlers[args.command])
    /\ UNCHANGED <<argv, args, stdout, exit_code, outcome, exc, os, loc, fn_arg, fn_ret>>

\* the handler returns, main returns, the interpreter exits with status 0
MainReturn ==
    /\ pc = "return"
    /\ Exit(0, "ok")
    /\ UNCHANGED <<argv, args, called, stdout, exc, os, loc, fn_arg, fn_ret>>

\* line 78
Hello78 ==
    /\ pc = "L78"
    /\ print("hello cursor")
    /\ pc' = "return"
    /\ UNCHANGED <<argv, args, called, exit_code, outcome, exc, os, loc, fn_arg, fn_ret>>

\* line 82: print(datetime.now())
Time82 ==
    /\ pc = "L82"
    /\ \E now \in Nows :
          /\ os' = [os EXCEPT !.now = now]
          /\ print(now)
    /\ pc' = "return"
    /\ UNCHANGED <<argv, args, called, exit_code, outcome, exc, loc, fn_arg, fn_ret>>

\* uptime_str = _format_uptime(_read_uptime_seconds())
ReadUptime(at, next) ==
    /\ pc = at
    /\ \/ \E u \in Uptimes :
             /\ os' = [os EXCEPT !.uptime = u]
             /\ loc' = [loc EXCEPT !.uptime_str = _format_uptime(u)]
             /\ pc' = next
             /\ UNCHANGED <<argv, args, called, stdout, exit_code, outcome, exc,
                            fn_arg, fn_ret>>
       \/ Raise("uptime")

\* print(fmt_field("hostname", socket.gethostname()))
PrintHostname(at, next) ==
    /\ pc = at
    /\ \/ \E h \in Hostnames :
             /\ os' = [os EXCEPT !.hostname = h]
             /\ print(fmt_field("hostname", h))
             /\ pc' = next
             /\ UNCHANGED <<argv, args, called, exit_code, outcome, exc, loc,
                            fn_arg, fn_ret>>
       \/ Raise("hostname")

\* print(fmt_field("user", getpass.getuser()))
PrintUser(at, next) ==
    /\ pc = at
    /\ \/ \E u \in Users :
             /\ os' = [os EXCEPT !.user = u]
             /\ print(fmt_field("user", u))
             /\ pc' = next
             /\ UNCHANGED <<argv, args, called, exit_code, outcome, exc, loc,
                            fn_arg, fn_ret>>
       \/ Raise("user")

\* print(fmt_field(label, value)) of a local
PrintField(at, next, label, value) ==
    /\ pc = at
    /\ print(fmt_field(label, value))
    /\ pc' = next
    /\ UNCHANGED <<argv, args, called, exit_code, outcome, exc, os, loc, fn_arg, fn_ret>>

\* lines 86-89
Sysinfo86 == ReadUptime("L86", "L87")
Sysinfo87 == PrintHostname("L87", "L88")
Sysinfo88 == PrintUser("L88", "L89")
Sysinfo89 == PrintField("L89", "return", "uptime", loc.uptime_str)

\* pct >= warn, for the float pct and the int warn
AtLeast_strict(pct, warn) == pct.num > warn * pct.den

AtLeast(pct, warn) == pct.num >= warn * pct.den

\* "WARNING" if bad else "OK"
Status(bad) == IF bad THEN "WARNING" ELSE "OK"

\* 2 if (disk_bad or mem_bad) else 0
inspect_exit_code_and(disk_bad, mem_bad) == IF disk_bad /\ mem_bad THEN 2 ELSE 0

inspect_exit_code_inverted(disk_bad, mem_bad) == IF disk_bad \/ mem_bad THEN 0 ELSE 2

inspect_exit_code(disk_bad, mem_bad) == IF disk_bad \/ mem_bad THEN 2 ELSE 0

\* lines 93-94
Inspect93 ==
    /\ pc = "L93"
    /\ loc' = [loc EXCEPT !.disk_warn = args.disk_warn, !.mem_warn = args.mem_warn]
    /\ pc' = "L95"
    /\ UNCHANGED <<argv, args, called, stdout, exit_code, outcome, exc, os, fn_arg, fn_ret>>

\* lines 95-98
Inspect95 == ReadUptime("L95", "L96")
Inspect96 == PrintHostname("L96", "L97")
Inspect97 == PrintUser("L97", "L98")
Inspect98 == PrintField("L98", "L99", "uptime", loc.uptime_str)

\* lines 99-100
Inspect99 ==
    /\ pc = "L99"
    /\ \/ \E usage \in DiskUsages :
             LET r == _get_disk_usage(usage)
             IN  /\ os' = [os EXCEPT !.usage = usage]
                 /\ loc' = [loc EXCEPT !.disk_pct = r.pct, !.disk_str = r.s,
                                       !.disk_bad = AtLeast(r.pct, loc.disk_warn)]
                 /\ pc' = "L101"
                 /\ UNCHANGED <<argv, args, called, stdout, exit_code, outcome, exc,
                                fn_arg, fn_ret>>
       \/ Raise("disk")

\* lines 101-102
Inspect101_status_first == PrintField("L101", "L102", "disk status", Status(loc.disk_bad))

Inspect101 == PrintField("L101", "L102", "disk", loc.disk_str)
Inspect102 == PrintField("L102", "L103", "disk status", Status(loc.disk_bad))

\* lines 103-104
Inspect103 ==
    /\ pc = "L103"
    /\ \/ \E meminfo \in MemInfos :
             LET r == _get_memory_usage(meminfo)
             IN  /\ os' = [os EXCEPT !.meminfo = meminfo]
                 /\ loc' = [loc EXCEPT !.mem_pct = r.pct, !.mem_str = r.s,
                                       !.mem_bad = AtLeast(r.pct, loc.mem_warn)]
                 /\ pc' = "L105"
                 /\ UNCHANGED <<argv, args, called, stdout, exit_code, outcome, exc,
                                fn_arg, fn_ret>>
       \/ Raise("memory")

\* lines 105-106
Inspect105 == PrintField("L105", "L106", "memory", loc.mem_str)
Inspect106 == PrintField("L106", "L107", "memory status", Status(loc.mem_bad))

\* line 107: sys.exit(2 if (disk_bad or mem_bad) else 0)
Inspect107 ==
    /\ pc = "L107"
    /\ Exit(inspect_exit_code(loc.disk_bad, loc.mem_bad), "ok")
    /\ UNCHANGED <<argv, args, called, stdout, exc, os, loc, fn_arg, fn_ret>>

Next ==
    \/ Main151
    \/ Main153
    \/ MainReturn
    \/ Hello78
    \/ Time82
    \/ Sysinfo86
    \/ Sysinfo87
    \/ Sysinfo88
    \/ Sysinfo89
    \/ Inspect93
    \/ Inspect95
    \/ Inspect96
    \/ Inspect97
    \/ Inspect98
    \/ Inspect99
    \/ Inspect101
    \/ Inspect102
    \/ Inspect103
    \/ Inspect105
    \/ Inspect106
    \/ Inspect107

Spec == Init /\ [][Next]_vars

(***************************************************************************)
(* Properties of a process run, checked under Spec.                        *)
(***************************************************************************)
Exited == pc = "exited"

\* the handler ran to its end: the process ended with no probe failure
Completed(fn) == Exited /\ called = <<fn>> /\ exc = ""

\* the threshold a command line asks for, read off the drawn option values
ThresholdAsked(given, default) ==
    CASE given = <<>> -> default
      [] given = << <<"5", "0">> >> -> 50
      [] given = << <<"1", "0", "1">> >> -> 101
      [] given = << <<"-", "1">> >> -> 0 - 1
      [] OTHER -> default

\* usage meets the threshold, from what the probes read
DiskMeets(warn) ==
    IF os.usage.total.m > 0
    THEN 100 * os.usage.used.m >= warn * os.usage.total.m
    ELSE 0 >= warn

MemMeets(warn) ==
    LET total == Get(os.meminfo, "MemTotal", 0)
        available == Get(os.meminfo, "MemAvailable", Get(os.meminfo, "MemFree", 0))
    IN  IF total > 0 THEN 100 * (total - available) >= warn * total ELSE 0 >= warn

\* C1: an inspect run whose probes all succeed exits with code 2 if and only
\* if at least one of the two status lines it printed is WARNING, and with
\* code 0 otherwise; it produces no other exit code.
C1_ExitCodeIffWarning ==
    Completed("cmd_inspect") =>
        /\ Len(stdout) = 7
        /\ exit_code \in {0, 2}
        /\ exit_code = 2 <=>
              \/ stdout[5] = "  disk status WARNING"
              \/ stdout[7] = "  memory status WARNING"
        /\ exit_code = 0 <=>
              /\ stdout[5] = "  disk status OK"
              /\ stdout[7] = "  memory status OK"

\* exit code 2 with only the memory status at WARNING
C1_Witness ==
    /\ Completed("cmd_inspect")
    /\ exit_code = 2
    /\ stdout[5] = "  disk status OK"
    /\ stdout[7] = "  memory status WARNING"

\* C2: in inspect the disk status line is WARNING exactly when
\* disk_pct >= disk_warn and OK otherwise, the memory status line is WARNING
\* exactly when mem_pct >= mem_warn and OK otherwise; usage equal to the
\* threshold reports WARNING; each status depends on its own resource and
\* threshold only; with no options the thresholds are 80 and 85.
C2_StatusLines ==
    called = <<"cmd_inspect">> =>
        /\ Len(stdout) >= 5 =>
              stdout[5] = IF DiskMeets(ThresholdAsked(argv.disk_warn, 80))
                          THEN "  disk status WARNING" ELSE "  disk status OK"
        /\ Len(stdout) >= 7 =>
              stdout[7] = IF MemMeets(ThresholdAsked(argv.mem_warn, 85))
                          THEN "  memory status WARNING" ELSE "  memory status OK"

\* disk usage of exactly the default 80 percent reports WARNING, while
\* memory usage of 50 percent under the default 85 reports OK
C2_Witness ==
    /\ Completed("cmd_inspect")
    /\ argv.disk_warn = <<>> /\ argv.mem_warn = <<>>
    /\ os.usage.used.m = 4 /\ os.usage.total.m = 5
    /\ os.meminfo = [MemTotal |-> 2, MemAvailable |-> 1]
    /\ stdout[5] = "  disk status WARNING"
    /\ stdout[7] = "  memory status OK"

\* inspect ran to completion and printed at least one WARNING status
InspectWarned ==
    /\ Completed("cmd_inspect")
    /\ Len(stdout) = 7
    /\ stdout[5] = "  disk status WARNING" \/ stdout[7] = "  memory status WARNING"

\* C4: every run that ends in a failure (a probe failure, or an invalid
\* invocation rejected by the argument parser) terminates with a non-zero
\* exit code different from 2, so exit code 2 implies that inspect ran to
\* completion and printed at least one WARNING status.
C4_ExitTwoOnlyFromInspect ==
    Exited =>
        /\ outcome \in {"probe_error", "usage_error"} => exit_code \notin {0, 2}
        /\ exit_code = 2 => InspectWarned

\* C4 as amended: a probe failure terminates with exit code 1; an invalid
\* invocation terminates with exit code 2 before any handler runs; exit code
\* 2 implies that inspect ran to completion and printed at least one WARNING
\* status, or that the argument parser rejected the command line.
C4_ExitCodes ==
    Exited =>
        /\ outcome = "probe_error" => exit_code = 1
        /\ outcome = "usage_error" => exit_code = 2 /\ called = <<>> /\ stdout = <<>>
        /\ exit_code = 2 => (InspectWarned /\ outcome = "ok") \/ outcome = "usage_error"
        /\ InspectWarned => exit_code = 2

\* inspect rejected for a non-integer threshold, with exit code 2
C4_Witness ==
    /\ Exited
    /\ argv.command = "inspect" /\ argv.disk_warn = << <<"8", "x">> >>
    /\ outcome = "usage_error"
    /\ exit_code = 2

\* the handler registered under a name (lines 114-119)
RegisteredHandler(name) ==
    CASE name = "hello" -> "cmd_hello"
      [] name = "time" -> "cmd_time"
      [] name = "sysinfo" -> "cmd_sysinfo"
      [] name = "inspect" -> "cmd_inspect"

IsRegisteredName(name) == name \in {"hello", "time", "sysinfo", "inspect"}

\* C5: main invokes at most one handler: for a registered command name
\* exactly the handler registered under that name is invoked once with the
\* parsed arguments; for a missing or unregistered subcommand the argument
\* parser ends the process with a non-zero usage error before any handler is
\* looked up or invoked, and no handler output is produced.
C5_OneHandler ==
    /\ Len(called) <= 1
    /\ Exited =>
          IF IsRegisteredName(argv.command)
          THEN /\ called = <<RegisteredHandler(argv.command)>>
               /\ args.command = argv.command
          ELSE /\ called = <<>>
               /\ stdout = <<>>
               /\ outcome = "usage_error"
               /\ exit_code # 0

\* the rest of the command line is one the sub-parser of `argv.command` accepts
RestAccepted ==
    /\ argv.extra = ""
    /\ argv.command # "inspect" => argv.disk_warn = <<>> /\ argv.mem_warn = <<>>
    /\ argv.command = "inspect" =>
          /\ argv.disk_warn # << <<"8", "x">> >>
          /\ argv.mem_warn # << <<"8", "x">> >>

\* C5 as amended: main invokes at most one handler; when the command name
\* is registered and the rest of the command line is accepted, exactly the
\* handler registered under that name is invoked once with the parsed
\* arguments; in every other case the argument parser ends the process
\* before any handler is looked up or invoked and no handler output is
\* produced: with usage-error status 2, or, for a help request, with the
\* help text and status 0 (which a missing subcommand followed by -h is).
C5_OneHandlerWhenAccepted ==
    /\ Len(called) <= 1
    /\ pc \notin {"L151", "L153"} /\ ~Exited => Len(called) = 1
    /\ Exited =>
          IF IsRegisteredName(argv.command) /\ RestAccepted
          THEN /\ called = <<RegisteredHandler(argv.command)>>
               /\ args.command = argv.command
               /\ argv.command = "inspect" =>
                     /\ args.disk_warn = ThresholdAsked(argv.disk_warn, 80)
                     /\ args.mem_warn = ThresholdAsked(argv.mem_warn, 85)
               /\ outcome \in {"ok", "probe_error"}
          ELSE /\ called = <<>>
               /\ args = [command |-> ""]
               /\ \/ outcome = "usage_error" /\ exit_code = 2 /\ stdout = <<>>
                  \/ /\ outcome = "help" /\ exit_code = 0 /\ stdout = <<"usage: cli">>
                     /\ argv.extra = "-h"
                     /\ argv.command # "bogus"
               /\ ~IsRegisteredName(argv.command) /\ argv # [command |-> "", disk_warn |-> <<>>,
                                                             mem_warn |-> <<>>, extra |-> "-h"]
                     => outcome = "usage_error"

\* a registered command with an unknown flag: no handler is invoked
C5_Witness ==
    /\ Exited
    /\ argv.command = "sysinfo" /\ argv.extra = "--bogus"
    /\ called = <<>>
    /\ exit_code = 2

\* C6: a sysinfo run whose probes succeed prints exactly three lines, in
\* the order hostname, user, uptime, each in the fixed-width label format,
\* and no disk, memory or status line, and ends with exit code 0; hello and
\* time end with exit code 0 too.
C6_SysinfoThreeLines ==
    /\ Completed("cmd_sysinfo") =>
          /\ stdout = << "  hostname   " \o os.hostname,
                         "  user       " \o os.user,
                         "  uptime     " \o _format_uptime(os.uptime) >>
          /\ exit_code = 0
    /\ Completed("cmd_hello") => stdout = <<"hello cursor">> /\ exit_code = 0
    /\ Completed("cmd_time") => stdout = <<os.now>> /\ exit_code = 0

\* a completed sysinfo run on a host that has been up for over a day
C6_Witness ==
    /\ Completed("cmd_sysinfo")
    /\ Len(stdout) = 3
    /\ stdout[3] = "  uptime     1 day(s), 01:01:01"

\* the i-th line of an inspect report
InspectLine(i) ==
    CASE i = 1 -> "  hostname   " \o os.hostname
      [] i = 2 -> "  user       " \o os.user
      [] i = 3 -> "  uptime     " \o loc.uptime_str
      [] i = 4 -> "  disk       " \o loc.disk_str
      [] i = 5 -> "  disk status " \o Status(loc.disk_bad)
      [] i = 6 -> "  memory     " \o loc.mem_str
      [] i = 7 -> "  memory status " \o Status(loc.mem_bad)

\* how many lines are out when a probe of inspect fails
LinesBefore(probe) ==
    CASE probe = "uptime" -> 0
      [] probe = "hostname" -> 0
      [] probe = "user" -> 1
      [] probe = "disk" -> 3
      [] probe = "memory" -> 5

\* C10: at every point of an inspect run the lines printed so far are a
\* prefix of hostname, user, uptime, disk, disk status, memory, memory
\* status; the process exits with code 0 or 2 only after all seven; a probe
\* failure (uptime before any line, disk after the uptime line, memory after
\* the disk status line) propagates uncaught: no further line is printed and
\* the run ends with a non-zero exit, not with the threshold-based exit.
C10_InspectOrder ==
    called = <<"cmd_inspect">> =>
        /\ Len(stdout) <= 7
        /\ \A i \in 1..Len(stdout) : stdout[i] = InspectLine(i)
        /\ Exited /\ exit_code \in {0, 2} => Len(stdout) = 7 /\ exc = ""
        /\ Exited /\ exit_code \notin {0, 2} => exc # ""
        /\ exc # "" =>
              /\ Exited
              /\ exit_code = 1
              /\ outcome = "probe_error"
              /\ Len(stdout) = LinesBefore(exc)

\* the memory probe fails after the disk status line
C10_Witness ==
    /\ called = <<"cmd_inspect">>
    /\ exc = "memory"
    /\ Exited
    /\ Len(stdout) = 5
    /\ exit_code = 1

====
